---------------------------- MODULE Spec2Model ----------------------------
(***************************************************************************)
(* Model of api/generate-from-scrapwood.js: the serverless handler that    *)
(* validates a request, makes one call to the generative provider and      *)
(* relays the provider's JSON reply.                                       *)
(*                                                                         *)
(* A JavaScript string is a sequence of chunks (TLC strings are atomic, so *)
(* concatenation and "contains" are sequence operations).  A JavaScript    *)
(* value is a record [t |-> type tag, v |-> sequence]: the chunks of a     *)
(* string, the one literal of a number, the items of an array.  A JSON     *)
(* text is a sequence of tokens.                                           *)
(***************************************************************************)
EXTENDS Integers, Sequences, FiniteSets, TLC

\* Number of invocations of the handler that may be in flight together.
NumRequests == 2

Requests == 1..NumRequests

-----------------------------------------------------------------------------
(* JavaScript values *)

Undef == [t |-> "undefined", v |-> <<>>]
Str(chunks) == [t |-> "string", v |-> chunks]
Num(lit) == [t |-> "number", v |-> <<lit>>]
Arr(items) == [t |-> "array", v |-> items]

\* ToBoolean, as the ! operator of lines 46 and 49 applies it.
Truthy(x) ==
    CASE x.t = "undefined" -> FALSE
      [] x.t = "null" -> FALSE
      [] x.t = "string" -> x.v # <<>>
      [] x.t = "number" -> x.v \notin {<<"0">>, <<"-0">>, <<"NaN">>}
      [] OTHER -> TRUE

\* x.length === 0 (line 49): arrays and strings have a length, numbers have none.
LengthIsZero(x) == x.t \in {"array", "string"} /\ Len(x.v) = 0

-----------------------------------------------------------------------------
(* JSON texts: JSON.stringify / res.json and Response.json for flat objects *)
(* whose values are strings.  An object is a sequence of <<key, value>>     *)
(* pairs, key and value being chunk sequences.                              *)

Quote == "\""
EscQuote == "\\\""
Space == " "

\* A quote inside a string is escaped in its literal, and unescaped on parsing.
Escape(chunks) == [i \in 1..Len(chunks) |-> IF chunks[i] = Quote THEN EscQuote ELSE chunks[i]]
Unescape(chunks) == [i \in 1..Len(chunks) |-> IF chunks[i] = EscQuote THEN Quote ELSE chunks[i]]

\* A string literal: the quoted, escaped chunks.
StringifyString(chunks) == <<Quote>> \o Escape(chunks) \o <<Quote>>

RECURSIVE StringifyMembers(_)
StringifyMembers(obj) ==
    IF obj = <<>> THEN <<>>
    ELSE StringifyString(obj[1][1]) \o <<":">> \o StringifyString(obj[1][2])
         \o (IF Len(obj) > 1 THEN <<",">> ELSE <<>>) \o StringifyMembers(Tail(obj))

\* JSON.stringify of a flat object, as res.json sends it.
StringifyObject(obj) == <<"{">> \o StringifyMembers(obj) \o <<"}">>

\* Whitespace between tokens is insignificant; whitespace inside a string is kept.
RECURSIVE StripWs(_, _)
StripWs(toks, inString) ==
    IF toks = <<>> THEN <<>>
    ELSE LET c == Head(toks) IN
         IF c = Quote THEN <<c>> \o StripWs(Tail(toks), ~inString)
         ELSE IF c = Space /\ ~inString THEN StripWs(Tail(toks), inString)
         ELSE <<c>> \o StripWs(Tail(toks), inString)

\* Index of the quote that closes the string whose content starts at i (0: none).
RECURSIVE ClosingQuote(_, _)
ClosingQuote(toks, i) ==
    IF i > Len(toks) THEN 0
    ELSE IF toks[i] = Quote THEN i
    ELSE ClosingQuote(toks, i + 1)

\* A string literal starting at i: [ok, val, next].
ParseString(toks, i) ==
    IF i > Len(toks) \/ toks[i] # Quote THEN [ok |-> FALSE, val |-> <<>>, next |-> 0]
    ELSE LET j == ClosingQuote(toks, i + 1) IN
         IF j = 0 THEN [ok |-> FALSE, val |-> <<>>, next |-> 0]
         ELSE [ok |-> TRUE,
               val |-> Unescape(SubSeq(toks, i + 1, j - 1)),
               next |-> j + 1]

\* The members of an object from token i on, up to the closing brace, which must
\* be the last token.
RECURSIVE ParseMembers(_, _, _)
ParseMembers(toks, i, acc) ==
    LET k == ParseString(toks, i) IN
    IF ~k.ok \/ k.next > Len(toks) \/ toks[k.next] # ":" THEN [ok |-> FALSE, obj |-> <<>>]
    ELSE LET val == ParseString(toks, k.next + 1) IN
         IF ~val.ok \/ val.next > Len(toks) THEN [ok |-> FALSE, obj |-> <<>>]
         ELSE LET acc2 == Append(acc, <<k.val, val.val>>) IN
              IF toks[val.next] = "}" /\ val.next = Len(toks) THEN [ok |-> TRUE, obj |-> acc2]
              ELSE IF toks[val.next] = "," THEN ParseMembers(toks, val.next + 1, acc2)
              ELSE [ok |-> FALSE, obj |-> <<>>]

\* JSON.parse of a text: [ok |-> FALSE] stands for the SyntaxError.
ParseJson(text) ==
    LET toks == StripWs(text, FALSE) IN
    IF Len(toks) < 2 \/ toks[1] # "{" THEN [ok |-> FALSE, obj |-> <<>>]
    ELSE IF Len(toks) = 2 THEN [ok |-> toks[2] = "}", obj |-> <<>>]
    ELSE ParseMembers(toks, 2, <<>>)

-----------------------------------------------------------------------------
(* Inputs *)

Methods == {"GET", "POST"}

StoolPrompt == Str(<<"a simple stool">>)
Plank == "{\"width\":0.1,\"height\":2,\"depth\":0.05}"

\* req.body: absent (present = FALSE), or an object with any of the three fields.
NoBody == [present |-> FALSE, prompt |-> Undef, scrapwood |-> Undef, freakyness |-> Undef]
Bodies ==
    {NoBody} \cup
    [present : {TRUE},
     prompt : {Undef, Str(<<>>), StoolPrompt},
     scrapwood : {Undef, Arr(<<>>), Arr(<<Plank>>)},
     freakyness : {Undef, Num("0"), Num("0.9")}]

\* process.env.GEMINI_API_KEY: unset, or a key.
ApiKeys == {Undef, Str(<<"secret-key">>)}

\* What the provider can answer: a status line and a body; readable records, once
\* the handler has read the body, whether the read completed or failed in mid-stream.
StoolJson == <<"{", Space, Quote, "objectName", Quote, ":", Space, Quote, "stool", Quote, Space, "}">>
ProviderStatuses == {200, 503}
ProviderBodies == {StoolJson, <<"Service Unavailable">>}
NoReply == [kind |-> "none", status |-> 0, body |-> <<>>, readable |-> FALSE]
Rejected == [kind |-> "rejected", status |-> 0, body |-> <<>>, readable |-> FALSE]
Replies ==
    [kind : {"response"}, status : ProviderStatuses, body : ProviderBodies, readable : {FALSE}]

\* Response.ok: the status is in the range 200-299.
Ok(status) == status >= 200 /\ status <= 299

\* Messages of the errors the runtime throws.
DestructureError == <<"Cannot destructure property 'prompt' of 'req.body' as it is undefined.">>
FetchError == <<"fetch failed">>
BodyReadError == <<"terminated">>
JsonSyntaxError == <<"Unexpected token in JSON">>

-----------------------------------------------------------------------------
(* The handler's pieces *)

SYSTEM_PROMPT == <<"You are an expert AI for waste-material fabrication. [...]">>

\* res.status(status).json(obj)
Respond(status, obj) == [status |-> status, body |-> StringifyObject(obj)]

MessageOnly(text) == << <<(<<"message">>), text>> >>

\* Mutant: the method check lets every method through.
MethodAllowedAny(method) == TRUE

\* line 38: req.method !== 'POST' is the negation of this.
MethodAllowed(method) == method = "POST"

\* Mutant: the credential check is skipped.
KeyNeverMissing(key) == FALSE

\* line 46: !apiKey
KeyMissing(key) == ~Truthy(key)

\* Mutant: the empty-list test is forgotten.
FieldsMissingNoLength(prompt, scrapwood) == ~Truthy(prompt) \/ ~Truthy(scrapwood)

\* Mutant: the length test is off by one (scrapwood.length <= 1).
FieldsMissingStrict(prompt, scrapwood) ==
    ~Truthy(prompt) \/ ~Truthy(scrapwood)
    \/ (scrapwood.t \in {"array", "string"} /\ Len(scrapwood.v) <= 1)

\* line 49: !prompt || !scrapwood || scrapwood.length === 0
FieldsMissing(prompt, scrapwood) ==
    ~Truthy(prompt) \/ ~Truthy(scrapwood) \/ LengthIsZero(scrapwood)

\* Mutant: the default is applied to every falsy value (freakyness || 0.5).
ResolveTempFalsy(freakyness) == IF Truthy(freakyness) THEN freakyness ELSE Num("0.5")

\* line 67: freakyness !== undefined ? freakyness : 0.5
ResolveTemp(freakyness) == IF freakyness # Undef THEN freakyness ELSE Num("0.5")

\* JSON.stringify of a primitive value.
StringifyValue(x) ==
    CASE x.t = "number" -> x.v
      [] x.t = "string" -> StringifyString(x.v)
      [] OTHER -> <<"null">>

RECURSIVE JoinItems(_)
JoinItems(items) ==
    IF items = <<>> THEN <<>>
    ELSE <<Head(items)>> \o (IF Len(items) > 1 THEN <<",">> ELSE <<>>) \o JoinItems(Tail(items))

\* JSON.stringify(scrapwood, null, 2), each piece an opaque text.
StringifyInventory(scrapwood) ==
    IF scrapwood.t = "array" THEN <<"[">> \o JoinItems(scrapwood.v) \o <<"]">>
    ELSE StringifyValue(scrapwood)

\* lines 53-58
UserInstruction(prompt, scrapwood) ==
    <<"Here is my inventory of scrapwood pieces (in meters):">>
    \o StringifyInventory(scrapwood)
    \o <<"Using only these pieces, please generate a JSON assembly for the following object: ", Quote>>
    \o prompt.v \o <<Quote>>

\* lines 60-81: the request handed to fetch.
OutboundCall(key, body) ==
    [url |-> <<"https://generativelanguage.googleapis.com/v1beta/models/",
               "gemini-1.5-pro-latest", ":generateContent?key=">> \o key.v,
     method |-> "POST",
     parts |-> <<SYSTEM_PROMPT, UserInstruction(body.prompt, body.scrapwood)>>,
     temperature |-> StringifyValue(ResolveTemp(body.freakyness)),
     responseMimeType |-> "application/json"]

\* Mutant: the thrown message leaves the provider's body text out.
ProviderErrorMessageNoBody(status, errorText) ==
    <<"Google API responded with status ", ToString(status)>>

\* line 86: the message of the Error thrown on a non-success reply.
ProviderErrorMessage(status, errorText) ==
    <<"Google API responded with status ", ToString(status), ": ">> \o errorText

\* Mutant: the catch block answers without logging.
CatchBlockNoLog(error) ==
    [log |-> <<>>,
     resp |-> <<Respond(500, << <<(<<"message">>), <<"An error occurred on the server.">> >>,
                               <<(<<"error">>), error>> >>)>>]

\* Mutant: the catch block logs and sends nothing.
CatchBlockSilent(error) == [log |-> <<error>>, resp |-> <<>>]

\* lines 92-95: what the catch block logs and sends for an error with this message.
CatchBlock(error) ==
    [log |-> <<error>>,
     resp |-> <<Respond(500, << <<(<<"message">>), <<"An error occurred on the server.">> >>,
                               <<(<<"error">>), error>> >>)>>]

\* Mutant: the relay drops the first member of the provider's object.
SuccessResponseTruncated(googleData) == Respond(200, Tail(googleData))

\* line 90: res.status(200).json(googleData)
SuccessResponse(googleData) == Respond(200, googleData)

\* Mutant: googleResponse is a module-level variable shared by all invocations.
SharedFrame(r) == 1

\* Each call of handler has its own activation record: the consts of lines 43-89
\* are locals of the invocation.
Frame(r) == r

-----------------------------------------------------------------------------
(* State *)

VARIABLES
    apiKey,          \* process.env.GEMINI_API_KEY
    pc,              \* per invocation: "idle", "fetch", "text", "json" or "done"
    req,             \* per invocation: the request it was called with
    outbound,        \* per invocation: the calls it handed to fetch
    net,             \* per invocation: the provider's reply to its call
    googleResponse,  \* per activation record: the const of line 71
    resp,            \* per invocation: the responses sent through res
    log              \* per invocation: the lines it wrote with console.error

vars == <<apiKey, pc, req, outbound, net, googleResponse, resp, log>>

NoRequest == [method |-> "", body |-> NoBody]

Init ==
    /\ apiKey \in ApiKeys
    /\ pc = [r \in Requests |-> "idle"]
    /\ req = [r \in Requests |-> NoRequest]
    /\ outbound = [r \in Requests |-> <<>>]
    /\ net = [r \in Requests |-> NoReply]
    /\ googleResponse = [r \in Requests |-> NoReply]
    /\ resp = [r \in Requests |-> <<>>]
    /\ log = [r \in Requests |-> <<>>]

\* The invocation ends: what it sent and logged is appended, nothing else runs.
Finish(r, out) ==
    /\ resp' = [resp EXCEPT ![r] = @ \o out.resp]
    /\ log' = [log EXCEPT ![r] = @ \o out.log]
    /\ pc' = [pc EXCEPT ![r] = "done"]

Sent(response) == [log |-> <<>>, resp |-> <<response>>]

\* lines 37-71: the handler is called and runs up to its first await.
Invoke(r) ==
    /\ pc[r] = "idle"
    /\ \E method \in Methods, body \in Bodies :
        /\ req' = [req EXCEPT ![r] = [method |-> method, body |-> body]]
        /\ IF ~MethodAllowed(method)
             THEN /\ Finish(r, Sent(Respond(405, MessageOnly(<<"Method Not Allowed">>))))
                  /\ UNCHANGED outbound
           ELSE IF ~body.present
             THEN /\ Finish(r, CatchBlock(DestructureError))
                  /\ UNCHANGED outbound
           ELSE IF KeyMissing(apiKey)
             THEN /\ Finish(r, Sent(Respond(500,
                         MessageOnly(<<"API key is not configured on the server.">>))))
                  /\ UNCHANGED outbound
           ELSE IF FieldsMissing(body.prompt, body.scrapwood)
             THEN /\ Finish(r, Sent(Respond(400,
                         MessageOnly(<<"Missing 'prompt' or 'scrapwood' list in the request.">>))))
                  /\ UNCHANGED outbound
           ELSE /\ outbound' = [outbound EXCEPT ![r] = Append(@, OutboundCall(apiKey, body))]
                /\ pc' = [pc EXCEPT ![r] = "fetch"]
                /\ UNCHANGED <<resp, log>>
    /\ UNCHANGED <<apiKey, net, googleResponse>>

\* line 71 rejects (network failure): the catch block runs.
FetchReject(r) ==
    /\ pc[r] = "fetch"
    /\ net' = [net EXCEPT ![r] = Rejected]
    /\ Finish(r, CatchBlock(FetchError))
    /\ UNCHANGED <<apiKey, req, outbound, googleResponse>>

\* lines 71-84/89: fetch resolves with the reply's head; the handler starts reading
\* the body, as text when the status is not ok and as JSON when it is.
FetchResolve(r) ==
    /\ pc[r] = "fetch"
    /\ \E reply \in Replies :
        /\ net' = [net EXCEPT ![r] = reply]
        /\ googleResponse' = [googleResponse EXCEPT ![Frame(r)] = reply]
        /\ pc' = [pc EXCEPT ![r] = IF Ok(reply.status) THEN "json" ELSE "text"]
    /\ UNCHANGED <<apiKey, req, outbound, resp, log>>

\* lines 84-86, 92-95: googleResponse.text() settles.
TextSettles(r) ==
    /\ pc[r] = "text"
    /\ \E readable \in BOOLEAN :
        LET gr == googleResponse[Frame(r)] IN
        /\ net' = [net EXCEPT ![r].readable = readable]
        /\ IF readable
             THEN LET errorText == gr.body
                      caught == CatchBlock(ProviderErrorMessage(gr.status, errorText))
                  IN Finish(r, [log |-> << <<"Google API Error:">> \o errorText >> \o caught.log,
                                resp |-> caught.resp])
             ELSE Finish(r, CatchBlock(BodyReadError))
    /\ UNCHANGED <<apiKey, req, outbound, googleResponse>>

\* lines 89-90, 92-95: googleResponse.json() settles.
JsonSettles(r) ==
    /\ pc[r] = "json"
    /\ \E readable \in BOOLEAN :
        LET gr == googleResponse[Frame(r)]
            googleData == ParseJson(gr.body)
        IN /\ net' = [net EXCEPT ![r].readable = readable]
           /\ IF ~readable THEN Finish(r, CatchBlock(BodyReadError))
              ELSE IF ~googleData.ok THEN Finish(r, CatchBlock(JsonSyntaxError))
              ELSE Finish(r, Sent(SuccessResponse(googleData.obj)))
    /\ UNCHANGED <<apiKey, req, outbound, googleResponse>>

Next ==
    \E r \in Requests :
        \/ Invoke(r)
        \/ FetchReject(r)
        \/ FetchResolve(r)
        \/ TextSettles(r)
        \/ JsonSettles(r)

Spec == Init /\ [][Next]_vars

TypeOK ==
    /\ apiKey \in ApiKeys
    /\ \A r \in Requests : pc[r] \in {"idle", "fetch", "text", "json", "done"}

-----------------------------------------------------------------------------
(* Vocabulary of the properties *)

Called(r) == pc[r] # "idle"
Done(r) == pc[r] = "done"
IsPost(r) == req[r].method = "POST"
HasBody(r) == req[r].body.present
KeyConfigured == apiKey.t = "string" /\ apiKey.v # <<>>

\* The request lacks prompt, lacks scrapwood, or its scrapwood is an empty list.
LacksFields(r) ==
    \/ req[r].body.prompt.t = "undefined"
    \/ req[r].body.scrapwood.t = "undefined"
    \/ (req[r].body.scrapwood.t = "array" /\ Len(req[r].body.scrapwood.v) = 0)

\* A request that passes the method, credential and field checks.
ValidRequest(r) ==
    /\ IsPost(r) /\ HasBody(r) /\ KeyConfigured
    /\ req[r].body.prompt.t = "string" /\ Len(req[r].body.prompt.v) > 0
    /\ req[r].body.scrapwood.t = "array" /\ Len(req[r].body.scrapwood.v) > 0

NoOutboundCall(r) == Len(outbound[r]) = 0

\* The one response of a finished invocation, as the caller reads it: its status,
\* and its body parsed back from the JSON text that was sent.
Status(r) == resp[r][1].status
BodyOf(r) == ParseJson(resp[r][1].body)

\* Predicates on a parsed body b = [ok, obj].
HasField(obj, key) == \E i \in 1..Len(obj) : obj[i][1] = <<key>>
Field(obj, key) == obj[CHOOSE i \in 1..Len(obj) : obj[i][1] = <<key>>][2]
OnlyMessage(b, text) == b.ok /\ b.obj = << <<(<<"message">>), <<text>> >> >>
GenericError(status, b) ==
    /\ status = 500
    /\ b.ok
    /\ Len(b.obj) = 2
    /\ HasField(b.obj, "message")
    /\ Field(b.obj, "message") = <<"An error occurred on the server.">>
    /\ HasField(b.obj, "error")
Misconfigured(status, b) ==
    status = 500 /\ OnlyMessage(b, "API key is not configured on the server.")

\* s contains sub as a run of consecutive chunks.
Contains(s, sub) ==
    \E i \in 0..(Len(s) - Len(sub)) : SubSeq(s, i + 1, i + Len(sub)) = sub

-----------------------------------------------------------------------------
(* Properties *)

\* C1: every request whose method is not POST is answered 405 with body
\* {message: "Method Not Allowed"} and makes no outbound call, whatever its body
\* and whether or not the API key is configured.
C1_NonPostIs405 ==
    \A r \in Requests :
        (Called(r) /\ ~IsPost(r)) =>
            /\ Done(r)
            /\ Len(resp[r]) = 1
            /\ Status(r) = 405
            /\ OnlyMessage(BodyOf(r), "Method Not Allowed")
            /\ NoOutboundCall(r)

\* A GET carrying an otherwise valid body was answered while no key is configured.
C1_Witness ==
    \E r \in Requests :
        /\ Done(r) /\ req[r].method = "GET" /\ ~KeyConfigured
        /\ req[r].body.prompt = StoolPrompt /\ req[r].body.scrapwood = Arr(<<Plank>>)
        /\ Status(r) = 405

\* C2 as stated: every POST missing prompt, missing scrapwood or with scrapwood of
\* length 0 is answered 400 and makes no outbound call.
C2_Original ==
    \A r \in Requests :
        (Called(r) /\ IsPost(r) /\ LacksFields(r)) =>
            /\ Done(r)
            /\ Status(r) = 400
            /\ NoOutboundCall(r)

\* C2 amended: such a POST never makes an outbound call; it is answered 400 when it
\* has a body and the key is configured, 500 "API key is not configured" when it has
\* a body and the key is absent, and the generic 500 when it has no body.
C2_MissingFields ==
    \A r \in Requests :
        (Called(r) /\ IsPost(r) /\ LacksFields(r)) =>
            /\ Done(r)
            /\ Len(resp[r]) = 1
            /\ NoOutboundCall(r)
            /\ LET b == BodyOf(r) IN
               /\ (HasBody(r) /\ KeyConfigured) =>
                     /\ Status(r) = 400
                     /\ OnlyMessage(b, "Missing 'prompt' or 'scrapwood' list in the request.")
               /\ (HasBody(r) /\ ~KeyConfigured) => Misconfigured(Status(r), b)
               /\ ~HasBody(r) => GenericError(Status(r), b)

\* A POST with a prompt and an empty scrapwood list was answered 400.
C2_Witness ==
    \E r \in Requests :
        /\ Done(r) /\ IsPost(r) /\ KeyConfigured
        /\ req[r].body.prompt = StoolPrompt /\ req[r].body.scrapwood = Arr(<<>>)
        /\ Status(r) = 400

\* C3 as stated: whenever the API key is absent the response is 500 with body
\* {message: "API key is not configured on the server."} and no outbound call is made.
C3_Original ==
    \A r \in Requests :
        (Called(r) /\ ~KeyConfigured) =>
            /\ Done(r)
            /\ Misconfigured(Status(r), BodyOf(r))
            /\ NoOutboundCall(r)

\* C3 amended: with the key absent no outbound call is made; a POST that has a body
\* is answered 500 "API key is not configured on the server." whatever the body
\* holds, a non-POST is answered 405, and a POST without a body the generic 500.
C3_KeyAbsent ==
    \A r \in Requests :
        (Called(r) /\ ~KeyConfigured) =>
            /\ Done(r)
            /\ Len(resp[r]) = 1
            /\ NoOutboundCall(r)
            /\ LET b == BodyOf(r) IN
               /\ (IsPost(r) /\ HasBody(r)) => Misconfigured(Status(r), b)
               /\ ~IsPost(r) => Status(r) = 405
               /\ (IsPost(r) /\ ~HasBody(r)) => GenericError(Status(r), b)

\* An otherwise valid POST was answered with the misconfiguration message.
C3_Witness ==
    \E r \in Requests :
        /\ Done(r) /\ IsPost(r) /\ ~KeyConfigured
        /\ req[r].body.prompt = StoolPrompt /\ req[r].body.scrapwood = Arr(<<Plank>>)
        /\ Misconfigured(Status(r), BodyOf(r))

\* C4: a valid request's outbound call carries the request's freakyness as its
\* temperature when freakyness is provided, and 0.5 when it is not.
C4_Temperature ==
    \A r \in Requests :
        (Called(r) /\ ValidRequest(r)) =>
            /\ Len(outbound[r]) = 1
            /\ req[r].body.freakyness.t = "number" =>
                  outbound[r][1].temperature = req[r].body.freakyness.v
            /\ req[r].body.freakyness.t = "undefined" =>
                  outbound[r][1].temperature = <<"0.5">>

\* A call went out for a request whose freakyness is 0, and one for a request
\* without freakyness.
C4_Witness ==
    /\ \E r \in Requests :
          /\ ValidRequest(r) /\ req[r].body.freakyness = Num("0")
          /\ Len(outbound[r]) = 1
    /\ \E r \in Requests :
          /\ ValidRequest(r) /\ req[r].body.freakyness = Undef
          /\ Len(outbound[r]) = 1

\* C5: when the outbound call succeeds with JSON body B, the response is 200 and
\* its body equals B.
C5_Relay ==
    \A r \in Requests :
        (/\ Done(r)
         /\ net[r].kind = "response" /\ net[r].status \in 200..299
         /\ net[r].readable) =>
            LET B == ParseJson(net[r].body) IN
            B.ok =>
                /\ Len(resp[r]) = 1
                /\ Status(r) = 200
                /\ BodyOf(r) = B

\* The provider's stool object was relayed.
C5_Witness ==
    \E r \in Requests :
        /\ Done(r) /\ net[r].kind = "response" /\ net[r].status = 200
        /\ net[r].readable /\ net[r].body = StoolJson
        /\ Status(r) = 200
        /\ BodyOf(r).obj = << <<(<<"objectName">>), <<"stool">> >> >>

C7_OneCall ==
    \A r \in Requests :
        /\ Len(outbound[r]) <= 1
        /\ (Called(r) /\ ValidRequest(r)) => Len(outbound[r]) = 1

\* A request whose one call failed (rejected, or answered 503) has ended, and the
\* call was not repeated.
C7_Witness ==
    /\ \E r \in Requests :
          Done(r) /\ net[r].kind = "rejected" /\ Len(outbound[r]) = 1
    /\ \E r \in Requests :
          Done(r) /\ net[r].kind = "response" /\ net[r].status = 503 /\ Len(outbound[r]) = 1

\* C8 as stated: every error outcome is surfaced as a JSON body carrying a message
\* field and is also logged before the request ends.
C8_Original ==
    \A r \in Requests :
        (Done(r) /\ Status(r) >= 400) =>
            /\ BodyOf(r).ok /\ HasField(BodyOf(r).obj, "message")
            /\ Len(log[r]) >= 1

\* C8 amended: every error outcome is surfaced as a JSON body carrying a message
\* field; the provider-error and unexpected-error outcomes (the ones whose body has
\* an error field) are logged with that error before the request ends, while the
\* 405, 400 and misconfiguration outcomes are not logged.
C8_ErrorsSurfaced ==
    \A r \in Requests :
        (Done(r) /\ Status(r) >= 400) =>
            LET b == BodyOf(r) IN
            /\ b.ok /\ HasField(b.obj, "message")
            /\ HasField(b.obj, "error") =>
                  /\ Len(log[r]) >= 1
                  /\ log[r][Len(log[r])] = Field(b.obj, "error")
            /\ ~HasField(b.obj, "error") =>
                  /\ Status(r) \in {400, 405, 500}
                  /\ log[r] = <<>>

\* A provider error was logged twice (its text, then the error), and a network
\* failure once.
C8_Witness ==
    /\ \E r \in Requests :
          /\ Done(r) /\ net[r].kind = "response" /\ net[r].status = 503 /\ net[r].readable
          /\ Len(log[r]) = 2
    /\ \E r \in Requests :
          Done(r) /\ net[r].kind = "rejected" /\ Len(log[r]) = 1

\* The response the handler owes request r, from r's method and body, the API key
\* and the provider's reply to r's own call: [status, obj].
ErrorObject(text) ==
    << <<(<<"message">>), <<"An error occurred on the server.">> >>, <<(<<"error">>), text>> >>

ExpectedResponse(r) ==
    IF ~IsPost(r) THEN
        [status |-> 405, obj |-> << <<(<<"message">>), <<"Method Not Allowed">> >> >>]
    ELSE IF ~HasBody(r) THEN
        [status |-> 500, obj |-> ErrorObject(DestructureError)]
    ELSE IF ~KeyConfigured THEN
        [status |-> 500,
         obj |-> << <<(<<"message">>), <<"API key is not configured on the server.">> >> >>]
    ELSE IF ~ValidRequest(r) THEN
        [status |-> 400,
         obj |-> << <<(<<"message">>), <<"Missing 'prompt' or 'scrapwood' list in the request.">> >> >>]
    ELSE IF net[r].kind = "rejected" THEN
        [status |-> 500, obj |-> ErrorObject(FetchError)]
    ELSE IF ~net[r].readable THEN
        [status |-> 500, obj |-> ErrorObject(BodyReadError)]
    ELSE IF net[r].status \notin 200..299 THEN
        [status |-> 500,
         obj |-> ErrorObject(<<"Google API responded with status ", ToString(net[r].status), ": ">>
                             \o net[r].body)]
    ELSE LET B == ParseJson(net[r].body) IN
         IF B.ok THEN [status |-> 200, obj |-> B.obj]
         ELSE [status |-> 500, obj |-> ErrorObject(JsonSyntaxError)]

\* C9: under any interleaving of the in-flight requests, each request's response
\* (status and body) is determined by that request's own method and body, the API
\* key and the provider's reply to that request's own call.
C9_Independent ==
    \A r \in Requests :
        Done(r) =>
            LET b == BodyOf(r)
                e == ExpectedResponse(r)
            IN /\ Len(resp[r]) = 1
               /\ Status(r) = e.status
               /\ b.ok
               /\ b.obj = e.obj

\* One request was answered from its own reply while another, whose call got a
\* different reply later, was still reading its body.
C9_Witness ==
    \E r, q \in Requests :
        /\ r # q
        /\ Done(r) /\ net[r].kind = "response" /\ net[r].readable
        /\ pc[q] \in {"text", "json"}
        /\ net[q].status # net[r].status
        /\ net[q].body # net[r].body
        /\ googleResponse[q] = net[q]

\* C10: every invocation that has ended has sent exactly one response, on each
\* path through the handler, and none sends a response before it ends.
C10_OneResponse ==
    \A r \in Requests :
        /\ Len(resp[r]) <= 1
        /\ Done(r) <=> Len(resp[r]) = 1

\* A POST without a body ended in the catch block with one response, and so did a
\* request whose call was rejected.
C10_Witness ==
    /\ \E r \in Requests :
          Done(r) /\ IsPost(r) /\ ~HasBody(r) /\ Len(resp[r]) = 1 /\ Status(r) = 500
    /\ \E r \in Requests :
          Done(r) /\ net[r].kind = "rejected" /\ Len(resp[r]) = 1

=============================================================================
